---- MODULE Spec2Model ----
\* Shift generation of my-shift-app (src/app.py): the instance a solve reads from
\* the store, the constraint system solve_shift builds for CP-SAT, the outcomes
\* the solver can report for it, and the per-slot failure diagnosis.
EXTENDS Integers, Sequences, FiniteSets, TLC

\* ---------------------------------------------------------------- constants

n_slots == 25
Slots == 0 .. (n_slots - 1)

\* cp_model.NewIntVar(-25, 25, "dev_s") / NewIntVar(0, 25, "abs_dev_s")
DevBound == 25
\* model.Minimize(sum(abs_devs) * 10 + fairness)
DevWeight == 10

\* ------------------------------------------------------------------- bounds

\* staff in a roster of the generic instances
MaxStaff == 2
\* the largest hour of a slot string handed to slot_str_to_index
MaxHour == 31
\* commits of other sessions in one run of the store specification
MaxWrites == 2
\* employees the staff form registers in one run of the store specification
MaxRoster == 2

\* ---------------------------------------------------------------- variables

VARIABLES
    employees,            \* employees table in id order: <<[is_key_person, is_newbie], ...>>
    availability,         \* availability table: {[employee_id, date, start_time, end_time]}
    demand,               \* demand table (date overrides): {[date, slot, triple]}
    demand_templates,     \* demand_templates table: {[weekday, slot, triple]}
    min_work_hours,       \* sidebar slider, in tenths of an hour (30 = 3.0 h)
    newbie_max_per_slot,  \* sidebar slider
    date_str,             \* the date of the generation loop, as a day number
    pc,                   \* position in the generation loop: "idle", the reads of
                          \* solve_shift ("staff", "avails", "overrides"), "loaded",
                          \* "solved", "done"
    staff_list,           \* solve_shift's local: the roster it read
    avails,               \* the availability rows it fetched for the date
    avail_matrix,         \* solve_shift's local: staff x slot availability it read
    date_demand,          \* the override dict it read for the date
    min_count,            \* solve_shift's locals: the demand arrays it read
    target_count,
    max_count,
    status,               \* the CP-SAT status of the solve ("NONE" before / without one)
    success,              \* solve_shift's first return value
    assign_matrix,        \* solve_shift's second return value (None on failure)
    error_message,        \* solve_shift's fourth return value
    diag,                 \* gen_results[date][4]
    slot_str,             \* the argument of a call of slot_str_to_index
    slot_index,           \* what that call returned or raised
    snapshots,            \* history: the instances the store has held between the
                          \* first and the last read of the running solve
    writes,               \* history: the commits of other sessions so far
    saved,                \* history: the last call of save_availabilities_for_date,
                          \* its arguments and the availability table it found
    bars,                 \* what _assign_matrix_to_bars returned for the chart
    cleaned               \* history: the runs of cleanup_availability_data so far, the
                          \* table the last one found and the two counts it returned

Store    == <<employees, availability, demand, demand_templates>>
Settings == <<min_work_hours, newbie_max_per_slot, date_str>>
Locals   == <<staff_list, avails, avail_matrix, date_demand, min_count, target_count, max_count>>
Outcome  == <<status, success, assign_matrix, error_message>>
TimeCall == <<slot_str, slot_index>>
History  == <<snapshots, writes, saved, cleaned>>
vars     == <<Store, Settings, pc, Locals, Outcome, diag, TimeCall, History, bars>>

\* Python's None: as an error message, as the assignment matrix (a solve with staff
\* never returns an empty matrix), and as the diagnosis (which can be an empty list)
None == "None"
NoMatrix == <<>>
NoDiag == [none |-> TRUE, issues |-> <<>>]
Report(issues) == [none |-> FALSE, issues |-> issues]

Max(a, b) == IF a >= b THEN a ELSE b
Min(a, b) == IF a <= b THEN a ELSE b
Abs(x) == IF x >= 0 THEN x ELSE 0 - x

MinOf(S) == CHOOSE m \in S : \A x \in S : m <= x
MaxOf(S) == CHOOSE m \in S : \A x \in S : m >= x

\* --------------------------------------------------------------- time model

\* A slot string, by how Python reads it in h, m = s.split(":", 1); int(h); int(m):
\*   "HH:MM"      hour and minutes are integers (fields h, m)
\*   "HH:"        the hour is an integer and the minutes are empty (field h)
\*   "BadMinute"  the hour is an integer, the minutes are not (field h)
\*   "BadHour"    there is a colon and the hour is no integer
\*   "NoColon"    there is no colon to split at
HM(h, m) == [form |-> "HH:MM", h |-> h, m |-> m]
Malformed(f, h) == [form |-> f, h |-> h, m |-> 0]

\* get_time_options: for h in range(17, 24), then for h in range(24, 30)
RECURSIVE evening_options(_)
evening_options(h) ==
    IF h >= 24 THEN <<>> ELSE <<HM(h, 0), HM(h, 30)>> \o evening_options(h + 1)
RECURSIVE night_options(_)
night_options(h) ==
    IF h >= 30 THEN <<>>
    ELSE (IF h < 29 THEN <<HM(h, 0), HM(h, 30)>> ELSE <<HM(h, 0)>>) \o night_options(h + 1)
get_time_options == evening_options(17) \o night_options(24)

TIME_OPTIONS == get_time_options
\* TIME_OPTIONS[s] of the Python list, which counts from 0
TimeOption(s) == TIME_OPTIONS[s + 1]
TimeLabels == {TIME_OPTIONS[k] : k \in DOMAIN TIME_OPTIONS}

\* to_display_time: hours 0..5 of the stored form become 24..29, the rest of the string
\* is kept; a string without a colon or with a non-integer hour is returned as it is
to_display_time(slot) ==
    IF slot.form \in {"NoColon", "BadHour"} THEN slot
    ELSE IF 0 <= slot.h /\ slot.h <= 5 THEN [slot EXCEPT !.h = 24 + slot.h]
    ELSE slot

\* slot_str_to_index raises ValueError: the unpacking of split(":", 1), int(h) or int(m)
slot_str_to_index_raises(s) == s.form \in {"NoColon", "BadHour", "BadMinute"}

\* the conversion without its branch for the hours after midnight
slot_str_to_index_NoNight(s) ==
    LET h_int == s.h
        m_int == IF s.form = "HH:" THEN 0 ELSE s.m
    IN  IF 17 <= h_int /\ h_int <= 23
        THEN (h_int - 17) * 2 + (IF m_int >= 30 THEN 1 ELSE 0)
        ELSE 0

\* the conversion without the half-hour step
slot_str_to_index_NoHalf(s) ==
    LET h_int == s.h
    IN  IF 17 <= h_int /\ h_int <= 23 THEN (h_int - 17) * 2
        ELSE IF 24 <= h_int /\ h_int <= 29 THEN 14 + (h_int - 24) * 2
        ELSE 0

\* the conversion with 29:00 taken for the slot after the last
slot_str_to_index_PastLast(s) ==
    LET h_int == s.h
        m_int == IF s.form = "HH:" THEN 0 ELSE s.m
    IN  IF 17 <= h_int /\ h_int <= 23
        THEN (h_int - 17) * 2 + (IF m_int >= 30 THEN 1 ELSE 0)
        ELSE IF 24 <= h_int /\ h_int <= 28
        THEN 14 + (h_int - 24) * 2 + (IF m_int >= 30 THEN 1 ELSE 0)
        ELSE IF h_int = 29 THEN n_slots
        ELSE 0

\* slot_str_to_index where it returns
slot_str_to_index(s) ==
    LET h_int == s.h
        m_int == IF s.form = "HH:" THEN 0 ELSE s.m
    IN  IF 17 <= h_int /\ h_int <= 23
        THEN (h_int - 17) * 2 + (IF m_int >= 30 THEN 1 ELSE 0)
        ELSE IF 24 <= h_int /\ h_int <= 29
        THEN 14 + (h_int - 24) * 2 + (IF m_int >= 30 THEN 1 ELSE 0)
        ELSE 0

\* the outcome of a call: a value or an exception
\* an empty or all-blank string, or None, as a start or an end time
Blank == [form |-> "Blank", h |-> 0, m |-> 0]

\* no call of save_availabilities_for_date yet
NoSave == [called |-> FALSE]
\* no run of cleanup_availability_data yet
NoCleanup == [runs |-> 0]

Raised == [raised |-> TRUE]
Value(v) == [raised |-> FALSE, value |-> v]
NotCalled == [raised |-> FALSE]

\* ------------------------------------------------------- the day's instance

\* datetime.strptime(date_str, "%Y-%m-%d").weekday(), day 0 being a Monday
weekday(d) == d % 7

\* get_employees: SELECT ... ORDER BY id
get_employees == employees

\* SELECT employee_id, start_time, end_time FROM availability WHERE date = %s
get_avails(d) == {row \in availability : row.date = d}

\* the matrix with the end slot of a window counted in
availability_matrix_EndInclusive(all_staff, rows) ==
    [i \in 1 .. Len(all_staff) |->
        [s \in Slots |->
            \E row \in rows :
                /\ row.employee_id = i
                /\ slot_str_to_index(to_display_time(row.start_time)) <= s
                /\ s <= Min(slot_str_to_index(to_display_time(row.end_time)), n_slots - 1)]]

\* get_availability_matrix_and_staff from the roster and the fetched rows: one row of
\* 25 flags per roster staff, slot_ok[s] = True for s in range(start_s, min(end_s, 25))
\* of each row of the staff, start_s and end_s converted from the stored strings
availability_matrix(all_staff, rows) ==
    [i \in 1 .. Len(all_staff) |->
        [s \in Slots |->
            \E row \in rows :
                /\ row.employee_id = i
                /\ slot_str_to_index(to_display_time(row.start_time)) <= s
                /\ s < Min(slot_str_to_index(to_display_time(row.end_time)), n_slots)]]

get_availability_matrix == availability_matrix(get_employees, get_avails(date_str))

\* the dict {to_display_time(row[0]): (row[1], row[2], row[3]) for row in rows} of rows
\* fetched ORDER BY slot: of the rows with one display form, the last one stays
slot_dict(rows) ==
    [l \in {to_display_time(r.slot) : r \in rows} |->
        LET same == {r \in rows : to_display_time(r.slot) = l}
            last == CHOOSE r \in same : \A q \in same : q.slot.h <= r.slot.h
        IN  last.triple]

\* get_demand_for_date / get_demand_template_for_weekday
get_demand_for_date(d) == slot_dict({r \in demand : r.date = d})
get_demand_template_for_weekday(w) == slot_dict({r \in demand_templates : r.weekday = w})

\* default_min, default_tgt, default_max = 2, 3, 4
DefaultDemand == <<2, 3, 4>>

\* the fallback with the template ahead of the override
effective_demand_TemplateFirst(overrides, template) ==
    [l \in TimeLabels |->
        IF l \in DOMAIN template THEN template[l]
        ELSE IF l \in DOMAIN overrides THEN overrides[l]
        ELSE DefaultDemand]

\* get_effective_demand_for_date from the two dicts it read: per slot of time_options
\* the override, else the template, else the default
effective_demand(overrides, template) ==
    [l \in TimeLabels |->
        IF l \in DOMAIN overrides THEN overrides[l]
        ELSE IF l \in DOMAIN template THEN template[l]
        ELSE DefaultDemand]

get_effective_demand_for_date(d) ==
    effective_demand(get_demand_for_date(d), get_demand_template_for_weekday(weekday(d)))

\* get_demand_arrays: min 0, target 0, max 4 unless the slot is in the demand dict
min_c(demand_dict) ==
    [s \in Slots |-> IF TimeOption(s) \in DOMAIN demand_dict THEN demand_dict[TimeOption(s)][1] ELSE 0]
target_c(demand_dict) ==
    [s \in Slots |-> IF TimeOption(s) \in DOMAIN demand_dict THEN demand_dict[TimeOption(s)][2] ELSE 0]
max_c(demand_dict) ==
    [s \in Slots |-> IF TimeOption(s) \in DOMAIN demand_dict THEN demand_dict[TimeOption(s)][3] ELSE 4]

get_min_count    == min_c(get_effective_demand_for_date(date_str))
get_target_count == target_c(get_effective_demand_for_date(date_str))
get_max_count    == max_c(get_effective_demand_for_date(date_str))

n_staff == Len(staff_list)
Staff == 1 .. n_staff

is_key(i)    == staff_list[i].is_key_person
is_newbie(i) == staff_list[i].is_newbie

\* MIN_SLOTS without the floor of 6 slots
MIN_SLOTS_NoFloor == (min_work_hours * 2) \div 10

\* MIN_SLOTS = max(6, int(min_work_hours * 2))
MIN_SLOTS == Max(6, (min_work_hours * 2) \div 10)

\* ------------------------------------------- the constraint system (CP-SAT)

\* assign[i][s] is a Boolean variable where avail_matrix[i][s], None (0) elsewhere
AvailSlots(i) == {s \in Slots : avail_matrix[i][s]}
RowOf(S) == [s \in Slots |-> IF s \in S THEN 1 ELSE 0]
\* variables created also for the slot after an available one
RowCandidates_OneSlotLate(i) ==
    {RowOf(S) : S \in SUBSET (AvailSlots(i) \cup {s \in Slots : s > 0 /\ avail_matrix[i][s - 1]})}
RowCandidates(i) == {RowOf(S) : S \in SUBSET AvailSlots(i)}

\* sum(assign[i][s] for s in range(n_slots) if assign[i][s] is not None)
slot_total(i, r) == Cardinality({s \in AvailSlots(i) : r[s] = 1})

\* work[i]: sum >= 1 if work, sum == 0 if not work, sum >= MIN_SLOTS if work
\* (the last only for a staff with at least one variable)
WorkOK(i, r) ==
    \E work \in BOOLEAN :
        /\ work => slot_total(i, r) >= 1
        /\ ~work => slot_total(i, r) = 0
        /\ AvailSlots(i) # {} => (work => slot_total(i, r) >= MIN_SLOTS)

prev_val(i, r, s) ==
    IF s = 0 THEN 0 ELSE IF avail_matrix[i][s - 1] THEN r[s - 1] ELSE 0
prev_off(i, r, s) ==
    IF s = 0 THEN 1 ELSE IF avail_matrix[i][s - 1] THEN 1 - r[s - 1] ELSE 1
next_val(i, r, s) ==
    IF s = n_slots - 1 THEN 0 ELSE IF avail_matrix[i][s + 1] THEN r[s + 1] ELSE 0
next_off(i, r, s) ==
    IF s = n_slots - 1 THEN 1 ELSE IF avail_matrix[i][s + 1] THEN 1 - r[s + 1] ELSE 1

\* the values start_var / end_var can take under its three constraints
start_vals(i, r, s) ==
    {v \in 0 .. 1 : r[s] >= v /\ prev_off(i, r, s) >= v /\ v >= r[s] - prev_val(i, r, s)}
end_vals(i, r, s) ==
    {v \in 0 .. 1 : r[s] >= v /\ next_off(i, r, s) >= v /\ v >= r[s] - next_val(i, r, s)}

\* model.Add(sum(starts) <= 1): some choice of the start variables sums to <= 1
StartsOK(i, r) ==
    /\ \A s \in AvailSlots(i) : start_vals(i, r, s) # {}
    /\ Cardinality({s \in AvailSlots(i) : 0 \notin start_vals(i, r, s)}) <= 1
EndsOK(i, r) ==
    /\ \A s \in AvailSlots(i) : end_vals(i, r, s) # {}
    /\ Cardinality({s \in AvailSlots(i) : 0 \notin end_vals(i, r, s)}) <= 1

\* the constraints that mention one staff's row only
RowOK(i, r) ==
    /\ WorkOK(i, r)
    /\ AvailSlots(i) # {} => (StartsOK(i, r) /\ EndsOK(i, r))
RowFeasible(i) == {r \in RowCandidates(i) : RowOK(i, r)}

\* all matrices whose rows satisfy the per-staff constraints
RECURSIVE RowProduct(_)
RowProduct(n) ==
    IF n = 0 THEN {<<>>}
    ELSE {Append(p, r) : p \in RowProduct(n - 1), r \in RowFeasible(n)}

vars_s(s) == {i \in Staff : avail_matrix[i][s]}
headcount(A, s) == Cardinality({i \in vars_s(s) : A[i][s] = 1})

\* the per-slot headcount constraint without its upper bound
BoundsOK_NoMax(A) ==
    \A s \in Slots : vars_s(s) # {} => headcount(A, s) >= min_count[s]

\* per-slot headcount: min_count[s] <= sum(vars_s) <= max_count[s] if vars_s
BoundsOK(A) ==
    \A s \in Slots :
        vars_s(s) # {} =>
            /\ headcount(A, s) >= min_count[s]
            /\ headcount(A, s) <= max_count[s]

\* key coverage asked only of the slots that need staff
KeyOK_OnlyIfMin(A) ==
    \A s \in Slots :
        (min_count[s] >= 1 /\ \E i \in Staff : staff_list[i].is_key_person /\ avail_matrix[i][s]) =>
            \E i \in Staff : staff_list[i].is_key_person /\ avail_matrix[i][s] /\ A[i][s] = 1

key_in_slot(s) == {i \in Staff : is_key(i) /\ avail_matrix[i][s]}
KeyOK(A) ==
    \A s \in Slots :
        key_in_slot(s) # {} => Cardinality({i \in key_in_slot(s) : A[i][s] = 1}) >= 1

\* the newbie cap fixed at its default of 2 instead of the cap passed in
NewbieOK_DefaultCap(A) ==
    \A s \in Slots :
        Cardinality({i \in Staff : staff_list[i].is_newbie /\ avail_matrix[i][s] /\ A[i][s] = 1}) <= 2

newbie_in_slot(s) == {i \in Staff : is_newbie(i) /\ avail_matrix[i][s]}
NewbieOK(A) ==
    \A s \in Slots :
        newbie_in_slot(s) # {} =>
            Cardinality({i \in newbie_in_slot(s) : A[i][s] = 1}) <= newbie_max_per_slot

\* dev = total_s - target_count[s] with dev in [-25, 25], abs_dev = |dev| in [0, 25]
dev(A, s) == headcount(A, s) - target_count[s]
DevOK(A) ==
    \A s \in Slots :
        vars_s(s) # {} =>
            /\ dev(A, s) >= 0 - DevBound /\ dev(A, s) <= DevBound
            /\ Abs(dev(A, s)) <= DevBound

\* the solutions of the constraint system: the values of assign
Feasible ==
    {A \in RowProduct(n_staff) : BoundsOK(A) /\ KeyOK(A) /\ NewbieOK(A) /\ DevOK(A)}

\* ------------------------------------------------------------ the objective

RECURSIVE SumDevUpTo(_, _)
SumDevUpTo(A, s) ==
    IF s < 0 THEN 0
    ELSE SumDevUpTo(A, s - 1) + (IF vars_s(s) # {} THEN Abs(dev(A, s)) ELSE 0)
\* the sum of the deviations without the absolute value
RECURSIVE SumSignedDevUpTo(_, _)
SumSignedDevUpTo(A, s) ==
    IF s < 0 THEN 0
    ELSE SumSignedDevUpTo(A, s - 1) + (IF vars_s(s) # {} THEN dev(A, s) ELSE 0)
sum_abs_devs_Signed(A) == SumSignedDevUpTo(A, n_slots - 1)

\* sum(abs_devs)
sum_abs_devs(A) == SumDevUpTo(A, n_slots - 1)

slot_totals(A) == {slot_total(i, A[i]) : i \in Staff}
\* max_slots >= every total, min_slots <= every total, fairness = max_slots - min_slots,
\* all three in [0, 25]: the least fairness an assignment admits
fairness(A) == MaxOf(slot_totals(A)) - MinOf(slot_totals(A))

\* the objective without its fairness term
Objective_NoFairness(A) == sum_abs_devs(A) * DevWeight

Objective(A) ==
    IF \E s \in Slots : vars_s(s) # {}
    THEN sum_abs_devs(A) * DevWeight + fairness(A)
    ELSE fairness(A)

OptimalOf(F) ==
    IF F = {} THEN {}
    ELSE LET best == MinOf({Objective(B) : B \in F})
         IN {A \in F : Objective(A) = best}

\* ------------------------------------------------------------ the diagnosis

\* newbie_max = 2 in diagnose_shift_failure
DiagNewbieMax == 2

\* the slot loop with the newbie-cap check ahead of the key-person check
slot_issues_CapFirst(sl, am, mc, s) ==
    LET total_avail  == Cardinality({i \in 1 .. Len(sl) : am[i][s]})
        key_avail    == Cardinality({i \in 1 .. Len(sl) : am[i][s] /\ sl[i].is_key_person})
        newbie_avail == Cardinality({i \in 1 .. Len(sl) : am[i][s] /\ sl[i].is_newbie})
        min_req      == mc[s]
        max_assignable == total_avail - newbie_avail + Min(newbie_avail, DiagNewbieMax)
    IN  IF min_req = 0 THEN <<>>
        ELSE IF total_avail < min_req
        THEN <<[slot |-> s, cause |-> "InsufficientAvailable", req |-> min_req, n |-> total_avail]>>
        ELSE IF max_assignable < min_req
        THEN <<[slot |-> s, cause |-> "NewbieCapBlocksMinimum", req |-> min_req, n |-> max_assignable]>>
        ELSE IF key_avail = 0
        THEN <<[slot |-> s, cause |-> "NoKeyPersonAvailable", req |-> min_req, n |-> key_avail]>>
        ELSE <<>>

\* one iteration of the slot loop of diagnose_shift_failure over the roster sl,
\* the availability matrix am and the minimum headcounts mc: what it appends to issues
slot_issues(sl, am, mc, s) ==
    LET total_avail  == Cardinality({i \in 1 .. Len(sl) : am[i][s]})
        key_avail    == Cardinality({i \in 1 .. Len(sl) : am[i][s] /\ sl[i].is_key_person})
        newbie_avail == Cardinality({i \in 1 .. Len(sl) : am[i][s] /\ sl[i].is_newbie})
        min_req      == mc[s]
        max_assignable == total_avail - newbie_avail + Min(newbie_avail, DiagNewbieMax)
    IN  IF min_req = 0 THEN <<>>
        ELSE IF total_avail < min_req
        THEN <<[slot |-> s, cause |-> "InsufficientAvailable", req |-> min_req, n |-> total_avail]>>
        ELSE IF key_avail = 0
        THEN <<[slot |-> s, cause |-> "NoKeyPersonAvailable", req |-> min_req, n |-> key_avail]>>
        ELSE IF max_assignable < min_req
        THEN <<[slot |-> s, cause |-> "NewbieCapBlocksMinimum", req |-> min_req, n |-> max_assignable]>>
        ELSE <<>>

RECURSIVE IssuesUpTo(_, _, _, _)
IssuesUpTo(sl, am, mc, s) ==
    IF s < 0 THEN <<>>
    ELSE IssuesUpTo(sl, am, mc, s - 1) \o slot_issues(sl, am, mc, s)

\* diagnose_shift_failure(date_str): reads the store again, then scans the 25 slots
diagnose_shift_failure ==
    IssuesUpTo(get_employees, get_availability_matrix, get_min_count, n_slots - 1)

\* ------------------------------------------------------------------ actions

\* what a solve of date_str would read from the store as it is now
StoreInstance ==
    [staff_list |-> get_employees, avail_matrix |-> get_availability_matrix,
     min_count |-> get_min_count, target_count |-> get_target_count,
     max_count |-> get_max_count]
\* what the running solve has read
LoadedInstance ==
    [staff_list |-> staff_list, avail_matrix |-> avail_matrix,
     min_count |-> min_count, target_count |-> target_count, max_count |-> max_count]

\* solve_shift, its two calls that read the store, with no commit of another session
\* in between:
\* staff_list, avail_matrix = get_availability_matrix_and_staff(date_str)
\* min_count, target_count, max_count = get_demand_arrays(date_str)
LoadInstance ==
    /\ pc = "idle"
    /\ pc' = "loaded"
    /\ staff_list' = get_employees
    /\ avails' = get_avails(date_str)
    /\ avail_matrix' = get_availability_matrix
    /\ date_demand' = get_demand_for_date(date_str)
    /\ min_count' = get_min_count
    /\ target_count' = get_target_count
    /\ max_count' = get_max_count
    /\ snapshots' = {StoreInstance}
    /\ UNCHANGED <<Store, Settings, Outcome, diag, TimeCall, bars, writes, saved, cleaned>>

\* The same reads one query at a time, each on a connection of its own.
\* get_availability_matrix_and_staff: all_staff = get_employees()
ReadStaff ==
    /\ pc = "idle"
    /\ pc' = "staff"
    /\ staff_list' = get_employees
    /\ snapshots' = {StoreInstance}
    /\ UNCHANGED <<avails, avail_matrix, date_demand, min_count, target_count, max_count>>
    /\ UNCHANGED <<Store, Settings, Outcome, diag, TimeCall, bars, writes, saved, cleaned>>

\* get_availability_matrix_and_staff: the SELECT on availability, then the matrix
ReadAvails ==
    /\ pc = "staff"
    /\ pc' = "avails"
    /\ avails' = get_avails(date_str)
    /\ avail_matrix' = availability_matrix(staff_list, get_avails(date_str))
    /\ UNCHANGED <<staff_list, date_demand, min_count, target_count, max_count>>
    /\ UNCHANGED <<Store, Settings, Outcome, diag, TimeCall, bars, History>>

\* get_effective_demand_for_date: date_demand = get_demand_for_date(date_str)
ReadOverrides ==
    /\ pc = "avails"
    /\ pc' = "overrides"
    /\ date_demand' = get_demand_for_date(date_str)
    /\ UNCHANGED <<staff_list, avails, avail_matrix, min_count, target_count, max_count>>
    /\ UNCHANGED <<Store, Settings, Outcome, diag, TimeCall, bars, History>>

\* get_effective_demand_for_date: template_demand = get_demand_template_for_weekday(weekday),
\* then the effective dict and the three arrays of get_demand_arrays
ReadTemplate ==
    /\ pc = "overrides"
    /\ pc' = "loaded"
    /\ LET template_demand == get_demand_template_for_weekday(weekday(date_str))
           demand_dict == effective_demand(date_demand, template_demand)
       IN  /\ min_count' = min_c(demand_dict)
           /\ target_count' = target_c(demand_dict)
           /\ max_count' = max_c(demand_dict)
    /\ snapshots' = snapshots \cup {StoreInstance}
    /\ UNCHANGED <<staff_list, avails, avail_matrix, date_demand>>
    /\ UNCHANGED <<Store, Settings, Outcome, diag, TimeCall, bars, writes, saved, cleaned>>

\* the empty roster handed to the solver, which reports an empty model infeasible
SolveNoStaff_Solved ==
    /\ n_staff = 0
    /\ status' = "INFEASIBLE"
    /\ success' = FALSE
    /\ assign_matrix' = NoMatrix
    /\ error_message' = "Infeasible"

\* solve_shift returns (False, None, [], "no staff") without building a model
SolveNoStaff ==
    /\ n_staff = 0
    /\ status' = "NONE"
    /\ success' = FALSE
    /\ assign_matrix' = NoMatrix
    /\ error_message' = "NoStaff"

\* status OPTIMAL: the solver proved its assignment optimal
SolveOptimal(F) ==
    /\ n_staff > 0
    /\ \E A \in OptimalOf(F) :
        /\ status' = "OPTIMAL"
        /\ success' = TRUE
        /\ assign_matrix' = A
        /\ error_message' = None

\* status FEASIBLE: the time limit was hit with an incumbent, which is any solution
SolveFeasible(F) ==
    /\ n_staff > 0
    /\ \E A \in F :
        /\ status' = "FEASIBLE"
        /\ success' = TRUE
        /\ assign_matrix' = A
        /\ error_message' = None

\* status INFEASIBLE: the constraint system has no solution
SolveInfeasible(F) ==
    /\ n_staff > 0
    /\ F = {}
    /\ status' = "INFEASIBLE"
    /\ success' = FALSE
    /\ assign_matrix' = NoMatrix
    /\ error_message' = "Infeasible"

\* status UNKNOWN: the time limit was hit before any solution or proof
SolveUnknown ==
    /\ n_staff > 0
    /\ status' = "UNKNOWN"
    /\ success' = FALSE
    /\ assign_matrix' = NoMatrix
    /\ error_message' = "Unknown"

\* solve_shift from MIN_SLOTS on: build the model, solve it, return by status
SolveShift ==
    /\ pc = "loaded"
    /\ pc' = "solved"
    /\ LET F == Feasible
       IN  \/ SolveNoStaff
           \/ SolveOptimal(F)
           \/ SolveFeasible(F)
           \/ SolveInfeasible(F)
           \/ SolveUnknown
    /\ snapshots' = {}
    /\ UNCHANGED <<Store, Settings, Locals, diag, TimeCall, bars, writes, saved, cleaned>>

\* diag = diagnose_shift_failure(date_str) if not success else None
Diagnose ==
    /\ pc = "solved"
    /\ pc' = "done"
    /\ diag' = IF ~success THEN Report(diagnose_shift_failure) ELSE NoDiag
    /\ UNCHANGED <<Store, Settings, Locals, Outcome, TimeCall, bars, History>>

\* no chart has been built
NoBars == [built |-> FALSE]

\* the inner loop leaving after one slot
run_end_OneSlot(row, s) == s + 1

\* _assign_matrix_to_bars, the inner loop "while s < n_slots and row[s] == 1: s += 1":
\* the slot at which it stops
RECURSIVE run_end(_, _)
run_end(row, s) == IF s < n_slots /\ row[s] = 1 THEN run_end(row, s + 1) ELSE s

\* the outer loop "while s < n_slots" over one row from slot s on: the bars it appends,
\* each from start_s to the slot the inner loop stopped at
RECURSIVE row_bars(_, _, _)
row_bars(i, row, s) ==
    IF s >= n_slots THEN <<>>
    ELSE IF row[s] # 1 THEN row_bars(i, row, s + 1)
    ELSE <<[staff |-> i, start_s |-> s, end_s |-> run_end(row, s)]>>
            \o row_bars(i, row, run_end(row, s))

\* "for i in range(len(staff_list))" over the first n rows
RECURSIVE bars_up_to(_, _)
bars_up_to(matrix, n) ==
    IF n = 0 THEN <<>> ELSE bars_up_to(matrix, n - 1) \o row_bars(n, matrix[n], 0)

\* _assign_matrix_to_bars(assign_matrix, staff_list, base_dt, 30, 25), a bar held as
\* the staff and the two slots its start_dt and end_dt are computed from
assign_matrix_to_bars(matrix, sl) == bars_up_to(matrix, Len(sl))

\* build_weekly_shift_figure for a generated date: the bars of a successful result
BuildFigure ==
    /\ pc = "done"
    /\ success /\ assign_matrix # NoMatrix /\ staff_list # <<>>
    /\ pc' = "shown"
    /\ bars' = [built |-> TRUE, value |-> assign_matrix_to_bars(assign_matrix, staff_list)]
    /\ UNCHANGED <<Store, Settings, Locals, Outcome, diag, TimeCall, History>>

\* a call of _assign_matrix_to_bars with the matrix and the staff list held
CallAssignMatrixToBars ==
    /\ pc = "bars"
    /\ pc' = "shown"
    /\ bars' = [built |-> TRUE, value |-> assign_matrix_to_bars(assign_matrix, staff_list)]
    /\ UNCHANGED <<Store, Settings, Locals, Outcome, diag, TimeCall, History>>

\* the failure details of a date: the diagnosis table if diag is a non-empty list,
\* else the error message of the solve
failure_detail == IF diag.issues # <<>> THEN "Diagnosis" ELSE error_message

\* ---------------------------------------------------------------- instances

Regular == [is_key_person |-> FALSE, is_newbie |-> FALSE]
KeyP    == [is_key_person |-> TRUE,  is_newbie |-> FALSE]
Newbie  == [is_key_person |-> FALSE, is_newbie |-> TRUE]
KeyNew  == [is_key_person |-> TRUE,  is_newbie |-> TRUE]
Flags   == {Regular, KeyP, Newbie, KeyNew}

\* the date the operator generates
GenDay == 0

\* staff i available on GenDay from the start of slot a to the start of slot b
Window(i, a, b) ==
    [employee_id |-> i, date |-> GenDay,
     start_time |-> TimeOption(a), end_time |-> TimeOption(b)]
NoWindow == <<>>
\* the availability rows of a choice w of one window or none per staff
WindowsOf(w) == {Window(i, w[i][1], w[i][2]) : i \in {j \in DOMAIN w : w[j] # NoWindow}}
AllFrom(n, a, b) == {Window(i, a, b) : i \in 1 .. n}

Uniform(t) == [s \in Slots |-> t]
\* demand d on the slots below k, e on the others
Split(k, d, e) == [s \in Slots |-> IF s < k THEN d ELSE e]

\* the demand form of GenDay saved with triple d[s] on every slot s
OverrideRows(d) == {[date |-> GenDay, slot |-> TimeOption(s), triple |-> d[s]] : s \in Slots}

Inst(e, av, d, m, c) ==
    [employees |-> e, availability |-> av, demand |-> OverrideRows(d),
     min_work_hours |-> m, newbie_max_per_slot |-> c]

\* each staff of a generic instance has no window, an early one (17:00-20:30) or a
\* later one that overlaps it (18:30-22:00)
GenWindows == {<<0, 7>>, <<3, 10>>}
StaffKinds == Flags \X (GenWindows \cup {NoWindow})
FlagRank(f) == (IF f.is_key_person THEN 2 ELSE 0) + (IF f.is_newbie THEN 1 ELSE 0)
WindowRank(w) == IF w = NoWindow THEN 0 ELSE 1 + w[1]
KindRank(k) == FlagRank(k[1]) * n_slots + WindowRank(k[2])
\* crews of up to MaxStaff staff, one id order for each multiset of (flags, window)
Crews ==
    UNION {{c \in [1 .. n -> StaffKinds] :
                \A i \in 1 .. n - 1 : KindRank(c[i]) <= KindRank(c[i + 1])}
           : n \in 0 .. MaxStaff}
\* the default demand, exactly one staff per slot, and a loose demand
GenDemands == {Uniform(<<2, 3, 4>>), Uniform(<<1, 1, 1>>), Uniform(<<0, 1, 2>>)}
\* 1.0 h (below the 6-slot floor) and 3.5 h (7 slots); a cap of 1 and the default 2
GenHours == {10, 35}
GenCaps == {1, 2}
GenericInstances ==
    {Inst([i \in DOMAIN c |-> c[i][1]], WindowsOf([i \in DOMAIN c |-> c[i][2]]), d, m, c2) :
        c \in Crews, d \in GenDemands, m \in GenHours, c2 \in GenCaps}

\* S2: a newbie and a regular, no key-person, 17:00-23:00, min 1 on slot 0
S2 == Inst(<<Newbie, Regular>>, AllFrom(2, 0, 12),
           [Uniform(<<2, 3, 4>>) EXCEPT ![0] = <<1, 3, 4>>], 30, 2)
\* S3: three newbies, 17:00-23:00, min 3 on slot 0 and min 0 elsewhere, cap 2
S3 == Inst(<<Newbie, Newbie, Newbie>>, AllFrom(3, 0, 12),
           [Uniform(<<0, 3, 4>>) EXCEPT ![0] = <<3, 3, 4>>], 30, 2)
\* S4: two key-persons and a regular, 17:00-23:00, demand (1, 2, 3) on slots 0..11
S4 == Inst(<<KeyP, KeyP, Regular>>, AllFrom(3, 0, 12),
           Split(12, <<1, 2, 3>>, <<0, 0, 0>>), 30, 2)
\* S5: a key-person and two regulars, 17:00-23:00, demand (2, 2, 2) on slots 0..11
S5 == Inst(<<KeyP, Regular, Regular>>, AllFrom(3, 0, 12),
           Split(12, <<2, 2, 2>>, <<0, 0, 0>>), 30, 2)
\* a regular available 17:00-22:30 and one with no window; target 1 in the three
\* first and three last half-hours of the window, 0 in between
LongShift ==
    Inst(<<Regular, Regular>>, {Window(1, 0, 11)},
         [s \in Slots |-> IF s \in 3 .. 7 THEN <<0, 0, 2>> ELSE <<0, 1, 2>>], 30, 2)

\* S6: one key-person with the window 22:00-29:00, demand (1, 1, 1) on slots 10..23
\* and (0, 0, 0) on the others
S6 == Inst(<<KeyP>>, {Window(1, 10, 24)},
           [s \in Slots |-> IF s \in 10 .. 23 THEN <<1, 1, 1>> ELSE <<0, 0, 0>>], 30, 2)

\* a key-person who is a newbie and two more newbies, all available 17:00-20:30, three
\* staff needed on every slot, a newbie cap of 3 and a minimum shift of 4.0 h, which
\* is longer than the windows
CapThree ==
    Inst(<<KeyNew, Newbie, Newbie>>, AllFrom(3, 0, 7), Uniform(<<3, 3, 4>>), 40, 3)

\* one key-person available 17:00-20:30; one staff wanted 17:00-20:00 and the day
\* closed, demand (0, 0, 0), from 20:00 on
CloseEarly ==
    Inst(<<KeyP>>, {Window(1, 0, 7)}, Split(6, <<1, 1, 1>>, <<0, 0, 0>>), 30, 2)

\* one key-person available 26:00-29:00, the six last half-hours a window can name,
\* and one staff wanted on every slot, the last one (29:00-29:30) included
LastSlot ==
    Inst(<<KeyP>>, {Window(1, 18, 24)}, Uniform(<<1, 1, 1>>), 30, 2)

\* one key-person available 17:00-20:30 and a demand form saved with min 0, target 30
\* and max 40 on every slot
HighTarget ==
    Inst(<<KeyP>>, {Window(1, 0, 7)}, Uniform(<<0, 30, 40>>), 30, 2)

Scenarios == {S2, S3, S4, S5, LongShift, S6, CapThree}

IsInstance(inst) ==
    /\ employees = inst.employees
    /\ availability = inst.availability
    /\ demand = inst.demand
    /\ demand_templates = {}
    /\ min_work_hours = inst.min_work_hours
    /\ newbie_max_per_slot = inst.newbie_max_per_slot
    /\ date_str = GenDay

\* no call of slot_str_to_index is followed
NoTimeCall ==
    /\ slot_str = TimeOption(0)
    /\ slot_index = NotCalled

NotStarted ==
    /\ pc = "idle"
    /\ staff_list = <<>>
    /\ avails = {}
    /\ avail_matrix = <<>>
    /\ date_demand = <<>>
    /\ min_count = <<>>
    /\ target_count = <<>>
    /\ max_count = <<>>
    /\ status = "NONE"
    /\ success = FALSE
    /\ assign_matrix = NoMatrix
    /\ error_message = None
    /\ diag = NoDiag
    /\ snapshots = {}
    /\ writes = 0
    /\ saved = NoSave
    /\ bars = NoBars
    /\ cleaned = NoCleanup

Init ==
    /\ \/ \E inst \in GenericInstances : IsInstance(inst)
       \/ \E inst \in Scenarios : IsInstance(inst)
    /\ NotStarted
    /\ NoTimeCall

Next == LoadInstance \/ SolveShift \/ Diagnose

Spec == Init /\ [][Next]_vars

\* ------------------------------------------- generations for the end of the day

\* a window of the early evening, 17:00-20:30, and one that ends at 29:00, the last
\* label of TIME_OPTIONS: 26:00-29:00
LateWindows == {<<0, 7>>, <<18, 24>>}
LateKinds == Flags \X (LateWindows \cup {NoWindow})
\* no staff, one staff, or two in one id order for each pair of (flags, window)
LateCrews ==
    {<<>>} \cup {<<k>> : k \in LateKinds}
           \cup {c \in [1 .. 2 -> LateKinds] : KindRank(c[1]) <= KindRank(c[2])}
\* a day that closes at 20:00, one staff on every slot, a loose demand, and a form
\* saved with a target far above the crew
LateDemands ==
    {Split(6, <<1, 1, 1>>, <<0, 0, 0>>), Uniform(<<1, 1, 1>>),
     Uniform(<<0, 1, 2>>), Uniform(<<0, 30, 40>>)}
LateInstances ==
    {Inst([i \in DOMAIN c |-> c[i][1]], WindowsOf([i \in DOMAIN c |-> c[i][2]]),
          d, 30, 2) : c \in LateCrews, d \in LateDemands}

InitLate ==
    /\ \E inst \in LateInstances \cup {CloseEarly, LastSlot, HighTarget} : IsInstance(inst)
    /\ NotStarted
    /\ NoTimeCall

NextLate == LoadInstance \/ SolveShift \/ Diagnose

SpecLate == InitLate /\ [][NextLate]_vars

\* ------------------------------------------- the store under other sessions

\* add_employee: INSERT INTO employees, the new row gets the next id
add_employee(key_person, newbie) ==
    /\ employees' = Append(employees, [is_key_person |-> key_person, is_newbie |-> newbie])
    /\ UNCHANGED <<availability, demand, demand_templates>>

\* an item <<employee_id, start_time, end_time>> passes
\* "start and end and str(start).strip() and str(end).strip()"
is_set(item) == item[2] # Blank /\ item[3] # Blank
\* emp_ids_in_items = [eid for eid, s, e in items if s and e and ...]
emp_ids_in_items(items) == {items[k][1] : k \in {j \in DOMAIN items : is_set(items[j])}}

\* the insert that leaves an existing row of the (employee, date) as it is
upsert_availability_DoNothing(rows, d, item) ==
    IF \E row \in rows : row.employee_id = item[1] /\ row.date = d THEN rows
    ELSE rows \cup {[employee_id |-> item[1], date |-> d,
                      start_time |-> item[2], end_time |-> item[3]]}

\* INSERT INTO availability ... ON CONFLICT(employee_id, date) DO UPDATE SET
\* start_time = excluded.start_time, end_time = excluded.end_time
upsert_availability(rows, d, item) ==
    {row \in rows : ~(row.employee_id = item[1] /\ row.date = d)}
        \cup {[employee_id |-> item[1], date |-> d,
                start_time |-> item[2], end_time |-> item[3]]}

\* the loop "for emp_id, start, end in items" over the first k items
RECURSIVE upsert_items(_, _, _, _)
upsert_items(rows, d, items, k) ==
    IF k = 0 THEN rows
    ELSE LET done == upsert_items(rows, d, items, k - 1)
         IN  IF is_set(items[k]) THEN upsert_availability(done, d, items[k]) ELSE done

\* save_availabilities_for_date in one transaction: the rows of the date of the
\* employees with no set item are deleted (all rows of the date if no item is set),
\* then the set items are upserted in the order of the list
save_availabilities_for_date(d, items) ==
    /\ availability' =
            upsert_items({row \in availability :
                              row.date # d \/ row.employee_id \in emp_ids_in_items(items)},
                         d, items, Len(items))
    /\ saved' = [called |-> TRUE, date |-> d, items |-> items, before |-> availability]
    /\ UNCHANGED <<employees, demand, demand_templates>>

\* save_demand_slot: INSERT ... ON CONFLICT(date, slot) DO UPDATE
save_demand_slot(d, slot, triple) ==
    /\ demand' = {r \in demand : ~(r.date = d /\ r.slot = slot)}
                    \cup {[date |-> d, slot |-> slot, triple |-> triple]}
    /\ UNCHANGED <<employees, availability, demand_templates>>

\* save_demand_template_slot: INSERT ... ON CONFLICT(weekday, slot) DO UPDATE
save_demand_template_slot(w, slot, triple) ==
    /\ demand_templates' = {r \in demand_templates : ~(r.weekday = w /\ r.slot = slot)}
                              \cup {[weekday |-> w, slot |-> slot, triple |-> triple]}
    /\ UNCHANGED <<employees, availability, demand>>

\* the solve is between its first and its last read of the store
Reading == pc \in {"staff", "avails", "overrides"}

\* a commit of another session: it leaves the running generation alone, and the
\* history records the store it replaces if a solve is reading
OtherSession ==
    /\ writes < MaxWrites
    /\ writes' = writes + 1
    /\ UNCHANGED <<Settings, pc, Locals, Outcome, diag, TimeCall, bars, cleaned>>
    /\ snapshots' = IF Reading THEN snapshots \cup {StoreInstance} ELSE snapshots

\* tab1: the staff form registers a regular staff
AddEmployee ==
    /\ Len(employees) < MaxRoster
    /\ add_employee(FALSE, FALSE)
    /\ OtherSession
    /\ UNCHANGED saved

\* tab3: the bulk save of the day, each employee either off or 17:00-20:00; to_save
\* gets the employees, in roster order, whose start and end are both set
SaveAvailabilities ==
    \E on \in SUBSET (1 .. Len(employees)) :
        LET entered == [i \in 1 .. Len(employees) |->
                          IF i \in on THEN <<i, TimeOption(0), TimeOption(6)>>
                          ELSE <<i, Blank, Blank>>]
            to_save == SelectSeq(entered, is_set)
        IN  /\ save_availabilities_for_date(GenDay, to_save)
            /\ OtherSession

\* tab2: an override of the 17:00 slot of the day or of the same weekday a week later
SaveDemandSlot ==
    \E d \in {GenDay, GenDay + 7} :
        /\ save_demand_slot(d, TimeOption(0), <<1, 1, 2>>)
        /\ OtherSession
        /\ UNCHANGED saved

\* tab2: a template entry of the weekday of the day for the 17:00 or the 17:30 slot
SaveDemandTemplateSlot ==
    \E s \in {0, 1} :
        /\ save_demand_template_slot(weekday(GenDay), TimeOption(s), <<0, 1, 1>>)
        /\ OtherSession
        /\ UNCHANGED saved

\* one key-person, available 17:00-20:00 or off; no override; no template or one for
\* the 17:00 slot
InitStore ==
    /\ employees = <<KeyP>>
    /\ availability \in {{}, {Window(1, 0, 6)}}
    /\ demand = {}
    /\ demand_templates \in
            {{}, {[weekday |-> weekday(GenDay), slot |-> TimeOption(0), triple |-> <<0, 1, 1>>]}}
    /\ min_work_hours = 30
    /\ newbie_max_per_slot = 2
    /\ date_str = GenDay
    /\ NotStarted
    /\ NoTimeCall

NextStore ==
    \/ ReadStaff
    \/ ReadAvails
    \/ ReadOverrides
    \/ ReadTemplate
    \/ SolveShift
    \/ Diagnose
    \/ AddEmployee
    \/ SaveAvailabilities
    \/ SaveDemandSlot
    \/ SaveDemandTemplateSlot

SpecStore == InitStore /\ [][NextStore]_vars

\* ------------------------------------------- calls of save_availabilities_for_date

\* the start and end times of an item: 17:00-29:00 (the "full" preset), 20:00-18:30
\* (an end before the start, which the select boxes allow), and a start with the end
\* left blank
ItemTimes ==
    {<<TimeOption(0), TimeOption(24)>>, <<TimeOption(6), TimeOption(3)>>,
     <<TimeOption(0), Blank>>}
SaveDates == {GenDay, GenDay + 1}
\* the lists handed to the call: none, one or two items, with ids that may repeat
ItemsOf(ids) == {<<i, w[1], w[2]>> : i \in ids, w \in ItemTimes}
ItemLists(ids) ==
    {<<>>} \cup {<<a>> : a \in ItemsOf(ids)} \cup {<<a, b>> : a \in ItemsOf(ids), b \in ItemsOf(ids)}

\* a call of save_availabilities_for_date(d, items) by any session
CallSaveAvailabilities ==
    \E d \in SaveDates, items \in ItemLists(1 .. Len(employees)) :
        /\ save_availabilities_for_date(d, items)
        /\ OtherSession

\* two staff; no availability yet, or on the day and on the next day the first staff
\* full and the second 22:00-01:00, the end held in the form a clock shows
InitAvail ==
    /\ employees = <<KeyP, Regular>>
    /\ availability \in
            {{}, {[employee_id |-> 1, date |-> d,
                   start_time |-> TimeOption(0), end_time |-> TimeOption(24)] : d \in SaveDates}
                 \cup {[employee_id |-> 2, date |-> d,
                        start_time |-> HM(22, 0), end_time |-> HM(1, 0)] : d \in SaveDates}}
    /\ demand = {}
    /\ demand_templates = {}
    /\ min_work_hours = 30
    /\ newbie_max_per_slot = 2
    /\ date_str = GenDay
    /\ NotStarted
    /\ NoTimeCall

NextAvail == CallSaveAvailabilities \/ LoadInstance

SpecAvail == InitAvail /\ [][NextAvail]_vars

\* ------------------------------------------------- calls of slot_str_to_index

\* the slot strings handed to the conversion: every hour 0..MaxHour with minutes on
\* and off the half-hour grid, and one string or more of each malformed kind
SlotStrings ==
    {HM(h, m) : h \in 0 .. MaxHour, m \in {0, 15, 30, 45}}
        \cup {Malformed("HH:", h) : h \in {3, 17, 29}}
        \cup {Malformed("BadMinute", 17), Malformed("BadHour", 0), Malformed("NoColon", 0)}

\* an empty store and the default settings
EmptyStore ==
    /\ employees = <<>>
    /\ availability = {}
    /\ demand = {}
    /\ demand_templates = {}
    /\ min_work_hours = 30
    /\ newbie_max_per_slot = 2
    /\ date_str = GenDay

InitTime ==
    /\ EmptyStore
    /\ NotStarted
    /\ slot_str \in SlotStrings
    /\ slot_index = NotCalled

\* slot_str_to_index(slot_str) returns its value or raises ValueError
CallSlotStrToIndex ==
    /\ slot_index = NotCalled
    /\ slot_index' = IF slot_str_to_index_raises(slot_str) THEN Raised
                      ELSE Value(slot_str_to_index(slot_str))
    /\ UNCHANGED <<Store, Settings, pc, Locals, Outcome, diag, slot_str, History, bars>>

NextTime == CallSlotStrToIndex

SpecTime == InitTime /\ [][NextTime]_vars

\* ------------------------------------------- runs of cleanup_availability_data

\* sessions whose start is followed
MaxCleanups == 2

\* DELETE FROM availability a USING availability b WHERE a.employee_id = b.employee_id
\* AND a.date = b.date AND a.id < b.id: the rows that stay
without_duplicates(rows) ==
    {a \in rows : ~\E b \in rows :
        a.employee_id = b.employee_id /\ a.date = b.date /\ a.id < b.id}

\* the test of the loop over the rows left, with end_s < start_s in place of
\* end_s <= start_s
is_invalid_EmptyKept(row) ==
    LET start_t == to_display_time(row.start_time)
        end_t == to_display_time(row.end_time)
    IN  \/ slot_str_to_index_raises(start_t)
        \/ slot_str_to_index_raises(end_t)
        \/ slot_str_to_index(end_t) < slot_str_to_index(start_t)

\* the loop over the rows left: a row goes to invalid_ids if a conversion raises
\* ValueError or if end_s <= start_s
is_invalid(row) ==
    LET start_t == to_display_time(row.start_time)
        end_t == to_display_time(row.end_time)
    IN  \/ slot_str_to_index_raises(start_t)
        \/ slot_str_to_index_raises(end_t)
        \/ slot_str_to_index(end_t) <= slot_str_to_index(start_t)

\* cleanup_availability_data in one transaction: the duplicates go, then the invalid
\* rows among those left; it returns dup_deleted, invalid_deleted
cleanup_availability_data ==
    LET kept == without_duplicates(availability)
        invalid_ids == {row \in kept : is_invalid(row)}
    IN  /\ availability' = kept \ invalid_ids
        /\ cleaned' = [runs |-> cleaned.runs + 1, before |-> availability,
                       dup_deleted |-> Cardinality(availability \ kept),
                       invalid_deleted |-> Cardinality(invalid_ids)]
        /\ UNCHANGED <<employees, demand, demand_templates>>

\* the start of a session: init_db has run, then the cleanup once for the session
StartSession ==
    /\ cleaned.runs < MaxCleanups
    /\ cleanup_availability_data
    /\ UNCHANGED <<Settings, pc, Locals, Outcome, diag, TimeCall, bars>>
    /\ UNCHANGED <<snapshots, writes, saved>>

\* what the availability table holds of a staff on a date: nothing, 17:00-29:00,
\* 20:00-18:30, 18:30-18:30, or 22:00-01:00 with the end as a clock shows it
StoredTimes ==
    {NoWindow, <<TimeOption(0), TimeOption(24)>>, <<TimeOption(6), TimeOption(3)>>,
     <<TimeOption(3), TimeOption(3)>>, <<HM(22, 0), HM(1, 0)>>}
\* the id of the row of staff i on date d
RowId(i, d) == 2 * (d - GenDay) + i

\* two staff and a table with at most one row per (employee_id, date), as its
\* UNIQUE(employee_id, date) keeps it
InitCleanup ==
    /\ employees = <<KeyP, Regular>>
    /\ \E w \in [(1 .. 2) \X SaveDates -> StoredTimes] :
        availability =
            {[id |-> RowId(k[1], k[2]), employee_id |-> k[1], date |-> k[2],
              start_time |-> w[k][1], end_time |-> w[k][2]]
                : k \in {j \in (1 .. 2) \X SaveDates : w[j] # NoWindow}}
    /\ demand = {}
    /\ demand_templates = {}
    /\ min_work_hours = 30
    /\ newbie_max_per_slot = 2
    /\ date_str = GenDay
    /\ NotStarted
    /\ NoTimeCall

NextCleanup == StartSession

SpecCleanup == InitCleanup /\ [][NextCleanup]_vars

\* ------------------------------------------------------ the bars of the chart

\* rows with any pattern of 0 and 1 on the two first slots, slot 3, slot 5 and the two
\* last slots, and 0 elsewhere
PatternSlots == {0, 1, 3, 5, 23, 24}
PatternRows == {RowOf(S) : S \in SUBSET PatternSlots}
\* a second row that is empty, full, or 1 on every other slot
SecondRows == {RowOf({}), RowOf(Slots), RowOf({s \in Slots : s % 2 = 1})}

\* two overlapping windows with a loose demand, and the same with no window for the
\* second staff
BarInstances ==
    {Inst(<<KeyP, Regular>>, {Window(1, 0, 7), Window(2, 3, 10)}, Uniform(<<0, 1, 2>>), 10, 2),
     Inst(<<KeyP, Regular>>, {Window(1, 0, 7)}, Uniform(<<1, 1, 1>>), 30, 2)}

\* either a date about to be generated, or the helper about to be called with a
\* matrix of two rows that no solve has produced
InitBars ==
    \/ /\ \E inst \in BarInstances : IsInstance(inst)
       /\ NotStarted
       /\ NoTimeCall
    \/ /\ EmptyStore
       /\ NoTimeCall
       /\ pc = "bars"
       /\ staff_list = <<KeyP, Regular>>
       /\ \E r \in PatternRows, q \in SecondRows : assign_matrix = <<r, q>>
       /\ avails = {}
       /\ avail_matrix = <<>>
       /\ date_demand = <<>>
       /\ min_count = <<>>
       /\ target_count = <<>>
       /\ max_count = <<>>
       /\ status = "NONE"
       /\ success = FALSE
       /\ error_message = None
       /\ diag = NoDiag
       /\ snapshots = {}
       /\ writes = 0
       /\ saved = NoSave
       /\ bars = NoBars
       /\ cleaned = NoCleanup

NextBars == LoadInstance \/ SolveShift \/ Diagnose \/ BuildFigure \/ CallAssignMatrixToBars

SpecBars == InitBars /\ [][NextBars]_vars

\* ------------------------------------------------- calls of the demand writers

\* apply_default_demand(date_str, min_c, target_c, max_c): save_demand_slot for every
\* slot of TIME_OPTIONS
apply_default_demand(d, triple) ==
    /\ demand' = {r \in demand : r.date # d}
                    \cup {[date |-> d, slot |-> TimeOption(s), triple |-> triple] : s \in Slots}
    /\ UNCHANGED <<employees, availability, demand_templates>>

\* what the three number inputs of a slot (each with min_value = 0 and no other
\* check) are submitted with: the default, a closed slot, an exact headcount, and two
\* entries that are out of order
FormTriples == {<<2, 3, 4>>, <<0, 0, 0>>, <<1, 1, 1>>, <<3, 1, 2>>, <<0, 2, 1>>}
\* the first and the last slot of the forms
FormSlots == {TimeOption(0), TimeOption(24)}
FormDates == {GenDay, GenDay + 1}

\* tab2, the demand form: save_demand_slot with the entries of a slot
CallSaveDemandSlot ==
    \E d \in FormDates, slot \in FormSlots, triple \in FormTriples :
        /\ save_demand_slot(d, slot, triple)
        /\ OtherSession
        /\ UNCHANGED saved

\* tab2, the template form: save_demand_template_slot with the entries of a slot
CallSaveDemandTemplateSlot ==
    \E d \in FormDates, slot \in FormSlots, triple \in FormTriples :
        /\ save_demand_template_slot(weekday(d), slot, triple)
        /\ OtherSession
        /\ UNCHANGED saved

\* tab2, the default button: apply_default_demand with the sidebar's three defaults
CallApplyDefaultDemand ==
    \E d \in FormDates, triple \in FormTriples :
        /\ apply_default_demand(d, triple)
        /\ OtherSession
        /\ UNCHANGED saved

InitDemand ==
    /\ EmptyStore
    /\ NotStarted
    /\ NoTimeCall

NextDemand == CallSaveDemandSlot \/ CallSaveDemandTemplateSlot \/ CallApplyDefaultDemand

SpecDemand == InitDemand /\ [][NextDemand]_vars

\* ------------------------------------------------------------------- claims

Returned == pc \in {"solved", "done"}
Succeeded == Returned /\ success

\* the slots staff i is assigned in the returned matrix
Assigned(i) == {s \in Slots : assign_matrix[i][s] = 1}
\* the staff assigned to slot s in the returned matrix
OnDuty(s) == {i \in Staff : assign_matrix[i][s] = 1}
AvailableAt(s) == {i \in Staff : avail_matrix[i][s]}
IsRun(S) == S = MinOf(S) .. MaxOf(S)
\* the slot that begins at the wall-clock label l: slot 0 begins at 17:00 and a slot
\* lasts 30 minutes
SlotAt(l) == 2 * (l.h - 17) + l.m \div 30
\* the slots inside an availability window of staff i in the store
InWindow(i) ==
    {s \in Slots : \E row \in availability :
        /\ row.employee_id = i
        /\ row.date = date_str
        /\ SlotAt(row.start_time) <= s
        /\ s < SlotAt(row.end_time)}

\* C1: in every assignment solve_shift returns with success, the slots of each
\* scheduled staff form one contiguous run of at least max(6, floor(2 * min_work_hours))
\* slots, so never fewer than 6.
C1_ContiguousMinShift ==
    Succeeded =>
        \A i \in Staff :
            Assigned(i) # {} =>
                /\ IsRun(Assigned(i))
                /\ Cardinality(Assigned(i)) >= 6
                /\ Cardinality(Assigned(i)) >= (2 * min_work_hours) \div 10
\* a staff works a run of exactly 6 slots, a proper part of a longer availability,
\* under a min_work_hours of 1.0
C1_Witness ==
    /\ Succeeded
    /\ min_work_hours = 10
    /\ \E i \in Staff :
        /\ Cardinality(Assigned(i)) = 6
        /\ Cardinality(AvailSlots(i)) > 6

\* C2: in every successful assignment, every slot in which at least one staff is
\* available has a headcount between the slot's minimum and maximum.
C2_SlotBounds ==
    Succeeded =>
        \A s \in Slots :
            AvailableAt(s) # {} =>
                /\ min_count[s] <= Cardinality(OnDuty(s))
                /\ Cardinality(OnDuty(s)) <= max_count[s]
\* a slot is staffed at its maximum although more staff are available in it
C2_Witness ==
    /\ Succeeded
    /\ \E s \in Slots :
        /\ Cardinality(OnDuty(s)) = max_count[s]
        /\ Cardinality(OnDuty(s)) = min_count[s]
        /\ Cardinality(AvailableAt(s)) > max_count[s]

\* C3: in every successful assignment, every slot in which a key-person is available
\* has a key-person assigned, whatever the demand of the slot.
C3_KeyCoverage ==
    Succeeded =>
        \A s \in Slots :
            (\E i \in AvailableAt(s) : is_key(i)) => (\E i \in OnDuty(s) : is_key(i))
\* a key-person is on duty in a slot whose minimum headcount is 0
C3_Witness ==
    /\ Succeeded
    /\ \E s \in Slots :
        /\ min_count[s] = 0
        /\ \E i \in OnDuty(s) : is_key(i)

\* C4: in every successful assignment, no slot has more newbies than the
\* newbie_max_per_slot of the solve.
C4_NewbieCap ==
    Succeeded =>
        \A s \in Slots :
            Cardinality({i \in OnDuty(s) : is_newbie(i)}) <= newbie_max_per_slot
\* two newbies are available in a slot, the cap is 1 and one of them is on duty
C4_Witness ==
    /\ Succeeded
    /\ newbie_max_per_slot = 1
    /\ \E s \in Slots :
        /\ Cardinality({i \in AvailableAt(s) : is_newbie(i)}) = 2
        /\ Cardinality({i \in OnDuty(s) : is_newbie(i)}) = 1

\* C5: in every successful assignment, a staff is assigned only to slots of their
\* availability (the matrix the solve read, and the window in the store), and a staff
\* with no window on the date has an all-zero row.
C5_WithinAvailability ==
    Succeeded =>
        \A i \in Staff :
            /\ \A s \in Assigned(i) : avail_matrix[i][s] /\ s \in InWindow(i)
            /\ (\A row \in availability : row.employee_id # i) => Assigned(i) = {}
\* one staff works inside their window while another, with no window, has an empty row
C5_Witness ==
    /\ Succeeded
    /\ \E i, j \in Staff :
        /\ Assigned(i) # {}
        /\ Assigned(i) # InWindow(i)
        /\ \A row \in availability : row.employee_id # j
        /\ Assigned(j) = {}

\* some slot needs staff and has staff available, none of them a key-person
KeylessDemand ==
    \E s \in Slots :
        /\ min_count[s] >= 1
        /\ AvailableAt(s) # {}
        /\ \A i \in AvailableAt(s) : ~is_key(i)
HasIssue(s, c) == \E k \in DOMAIN diag.issues : diag.issues[k].slot = s /\ diag.issues[k].cause = c

\* C6: a day on which some slot with min >= 1 has available staff but no available
\* key-person is never solved successfully; in scenario S2 the solve is infeasible and
\* the diagnosis reports NoKeyPersonAvailable on slot 0.
C6_KeylessNeverSolved ==
    /\ (Returned /\ KeylessDemand) => ~success
    /\ (IsInstance(S2) /\ pc = "done" /\ status # "UNKNOWN") =>
            status = "INFEASIBLE" /\ HasIssue(0, "NoKeyPersonAvailable")

\* C7 as stated: in scenario S3 the solve is infeasible and the diagnosis reports
\* NewbieCapBlocksMinimum with cap 2 on slot 0.
C7_S3ReportsNewbieCap ==
    (IsInstance(S3) /\ pc = "done" /\ status # "UNKNOWN") =>
        /\ status = "INFEASIBLE"
        /\ \E k \in DOMAIN diag.issues :
            diag.issues[k] =
                [slot |-> 0, cause |-> "NewbieCapBlocksMinimum", req |-> 3, n |-> 2]
\* C7 as amended: in scenario S3 the solve never succeeds (its status is INFEASIBLE
\* unless the time limit cut it off), and the diagnosis reports exactly one issue,
\* NoKeyPersonAvailable on slot 0: the key-person check precedes the newbie-cap check.
C7_S3ReportsNoKeyPerson ==
    (IsInstance(S3) /\ pc = "done") =>
        /\ ~success
        /\ status \in {"INFEASIBLE", "UNKNOWN"}
        /\ diag = Report(<<[slot |-> 0, cause |-> "NoKeyPersonAvailable", req |-> 3, n |-> 0]>>)
\* the solve of S3 was found infeasible and the diagnosis has run
C7_Witness ==
    IsInstance(S3) /\ pc = "done" /\ status = "INFEASIBLE" /\ ~diag.none

\* the per-staff slot totals of the returned matrix
Totals == [i \in Staff |-> Cardinality(Assigned(i))]

\* C8 as stated: in scenario S5 the assignment the solver proves optimal minimises
\* the fairness gap among the feasible assignments and its three totals differ by
\* no more than 1.
C8_S5TotalsWithinOne ==
    (IsInstance(S5) /\ pc = "solved" /\ status = "OPTIMAL") =>
        /\ \A i, j \in Staff : Totals[i] - Totals[j] <= 1
        /\ \A B \in Feasible : fairness(assign_matrix) <= fairness(B)
\* C8 as amended: in scenario S5 the assignment the solver proves optimal minimises
\* the fairness gap among the feasible assignments; the key-person works all 12
\* slots and the two regulars 6 each, so the totals differ by 6.
C8_S5TotalsDifferBySix ==
    (IsInstance(S5) /\ pc = "solved" /\ status = "OPTIMAL") =>
        /\ Totals = <<12, 6, 6>>
        /\ fairness(assign_matrix) = 6
        /\ \A B \in Feasible : fairness(assign_matrix) <= fairness(B)
\* the solve of S5 returned an assignment proved optimal
C8_Witness ==
    IsInstance(S5) /\ pc = "solved" /\ status = "OPTIMAL" /\ success

\* C9: every assignment that is optimal for 10 * deviation + fairness also has the
\* least total deviation among the feasible assignments.
C9_DeviationDominates ==
    (pc = "solved" /\ status = "OPTIMAL") =>
        \A B \in Feasible : sum_abs_devs(assign_matrix) <= sum_abs_devs(B)

\* C10: in scenario S4 the assignment the solver proves optimal has exactly 2 staff
\* on every slot 0..11, and every scheduled staff works one contiguous block of at
\* least 6 slots.
C10_S4ZeroDeviation ==
    (IsInstance(S4) /\ Returned /\ status = "OPTIMAL") =>
        /\ \A s \in 0 .. 11 : Cardinality(OnDuty(s)) = 2
        /\ sum_abs_devs(assign_matrix) = 0
        /\ \A i \in Staff :
            Assigned(i) # {} => IsRun(Assigned(i)) /\ Cardinality(Assigned(i)) >= 6
\* the solve of S4 returned an optimal assignment in which a staff works only a
\* part of the evening
C10_Witness ==
    /\ IsInstance(S4) /\ Returned /\ status = "OPTIMAL"
    /\ \E i \in Staff : Cardinality(Assigned(i)) = 6

\* C11: in scenario S6 the constraint system has a solution, so the solve succeeds
\* unless the time limit cuts it off, and in every assignment it returns the
\* key-person works one contiguous block that starts at slot 10, has at least 6 slots
\* and lies within slots 10..23.
C11_S6OvernightBlock ==
    (IsInstance(S6) /\ Returned) =>
        /\ Feasible # {}
        /\ status \in {"OPTIMAL", "FEASIBLE", "UNKNOWN"}
        /\ status # "UNKNOWN" =>
            /\ success
            /\ Assigned(1) # {}
            /\ IsRun(Assigned(1))
            /\ MinOf(Assigned(1)) = 10
            /\ Cardinality(Assigned(1)) >= 6
            /\ Assigned(1) \subseteq 10 .. 23
\* the solve of S6 succeeded and the key-person works past midnight, up to the slot
\* that ends at 29:00
C11_Witness ==
    /\ IsInstance(S6) /\ Succeeded
    /\ 14 \in Assigned(1)
    /\ MaxOf(Assigned(1)) = 23

\* the counts of the instance the solve read, in slot s
total_at(s) == Cardinality(AvailableAt(s))
keys_at(s) == Cardinality({i \in AvailableAt(s) : is_key(i)})
newbies_at(s) == Cardinality({i \in AvailableAt(s) : is_newbie(i)})
\* the cause an issue names is a shortfall of the instance and the cap of the solve
TrueShortfall(issue) ==
    LET s == issue.slot
    IN  /\ issue.cause = "InsufficientAvailable" => total_at(s) < min_count[s]
        /\ issue.cause = "NoKeyPersonAvailable" => keys_at(s) = 0
        /\ issue.cause = "NewbieCapBlocksMinimum" =>
                (total_at(s) - newbies_at(s)) + Min(newbies_at(s), newbie_max_per_slot)
                    < min_count[s]

\* C12: every cause the diagnosis of a failed solve reports for a slot is a true
\* shortfall of the instance the solve ran on: too few staff available, no key-person
\* available, or too few assignable staff under the newbie cap of that solve.
C12_DiagnoserSound ==
    (pc = "done" /\ ~diag.none) =>
        \A k \in DOMAIN diag.issues : TrueShortfall(diag.issues[k])

\* C13: whenever the diagnoser has an issue to report for the instance of a solve, the
\* constraint system solve_shift builds for that instance has no solution.
C13_IssuesImplyInfeasible ==
    (/\ pc = "solved"
     /\ n_staff > 0
     /\ IssuesUpTo(staff_list, avail_matrix, min_count, n_slots - 1) # <<>>) =>
        Feasible = {}

\* C17: a solve returns the no-staff failure exactly when the roster it read is empty;
\* it then has no assignment and no solver status, and its reason is neither the
\* infeasible one nor the unknown one.
C17_NoStaffOutcome ==
    Returned =>
        /\ (staff_list = <<>>) <=> (error_message = "NoStaff")
        /\ staff_list = <<>> =>
            /\ ~success
            /\ assign_matrix = NoMatrix
            /\ status = "NONE"
            /\ error_message \notin {"Infeasible", "Unknown"}
        /\ status \in {"INFEASIBLE", "UNKNOWN"} => error_message # "NoStaff"
\* a solve over an empty employees table has returned the no-staff failure
C17_Witness ==
    /\ Returned
    /\ employees = <<>>
    /\ staff_list = <<>>
    /\ error_message = "NoStaff"

\* C18: the result of a date carries a diagnosis exactly when its solve was
\* infeasible; an unknown or no-staff failure is shown with its own reason, and a
\* successful date carries no diagnosis.
C18_DiagnosisOnlyForInfeasible ==
    pc = "done" =>
        /\ ~diag.none <=> status = "INFEASIBLE"
        /\ error_message \in {"Unknown", "NoStaff"} => failure_detail = error_message
        /\ success => diag.none

\* the call of slot_str_to_index has ended
Called == slot_index # NotCalled
\* a label HH:MM with HH in 17..29 and MM in {00, 30}
OnGrid(l) == l.form = "HH:MM" /\ l.h \in 17 .. 29 /\ l.m \in {0, 30}

\* C14 as stated: every label HH:MM with HH in 17..29 and MM in {00, 30} converts to
\* an index in 0..24 whose TIME_OPTIONS entry is the label, and every entry of
\* TIME_OPTIONS converts back to its index.
C14_RoundTripOnGrid ==
    /\ \A s \in Slots :
        /\ ~slot_str_to_index_raises(TimeOption(s))
        /\ slot_str_to_index(TimeOption(s)) = s
    /\ (Called /\ OnGrid(slot_str)) =>
        /\ ~slot_index.raised
        /\ slot_index.value \in Slots
        /\ TimeOption(slot_index.value) = slot_str
\* C14 as amended: the round trip holds for the 25 labels of TIME_OPTIONS, which are
\* the labels 17:00 .. 29:00 on the half-hour grid, and the conversion is a bijection
\* between them and the slots 0..24; the label 29:30 converts to 25, which is no slot.
C14_RoundTripOnTimeOptions ==
    /\ TimeLabels = {l \in SlotStrings : OnGrid(l)} \ {HM(29, 30)}
    /\ \A s \in Slots :
        /\ ~slot_str_to_index_raises(TimeOption(s))
        /\ slot_str_to_index(TimeOption(s)) = s
    /\ (Called /\ slot_str \in TimeLabels) =>
        /\ ~slot_index.raised
        /\ slot_index.value \in Slots
        /\ TimeOption(slot_index.value) = slot_str
    /\ (Called /\ slot_str = HM(29, 30)) => slot_index = Value(n_slots)
\* the last label, 29:00, was converted to slot 24
C14_Witness ==
    /\ Called
    /\ slot_str = HM(29, 0)
    /\ slot_index = Value(24)

\* a slot string that is not a label HH:MM with HH in 17..29 and MM in {00, 30}
IsMalformed(l) == ~OnGrid(l)

\* C15: a call of slot_str_to_index with a malformed label (an hour outside 17..29,
\* minutes other than 00 or 30, or a string not of the form HH:MM) ends in an error and
\* returns no slot index.
C15_MalformedRaises ==
    (Called /\ IsMalformed(slot_str)) => slot_index.raised

\* the dates looked at: the day generated, the next day, the same weekday a week later
Dates == {GenDay, GenDay + 1, GenDay + 7}
\* the rows stored for slot s of date d, and for slot s of weekday w
OverridesAt(d, s) == {r \in demand : r.date = d /\ r.slot = TimeOption(s)}
TemplatesAt(w, s) == {r \in demand_templates : r.weekday = w /\ r.slot = TimeOption(s)}
\* the triple the fallback rule gives slot s of date d
Expected(d, s) ==
    IF OverridesAt(d, s) # {} THEN (CHOOSE r \in OverridesAt(d, s) : TRUE).triple
    ELSE IF TemplatesAt(weekday(d), s) # {}
    THEN (CHOOSE r \in TemplatesAt(weekday(d), s) : TRUE).triple
    ELSE <<2, 3, 4>>
\* the arrays get_demand_arrays returns for date d
ArraysOf(d) ==
    LET demand_dict == get_effective_demand_for_date(d)
    IN  <<min_c(demand_dict), target_c(demand_dict), max_c(demand_dict)>>

\* C16: for every date the three demand arrays have one entry for each of the 25
\* slots, and the triple of slot s is the override stored for (date, s) if there is
\* one, else the template stored for (weekday(date), s) if there is one, else
\* (2, 3, 4): it depends on no row of another slot or date.
C16_EffectiveDemandTotal ==
    /\ \A r \in demand \cup demand_templates : r.slot \in TimeLabels
    /\ \A d \in Dates :
        LET arrays == ArraysOf(d)
        IN  /\ \A k \in 1 .. 3 : DOMAIN arrays[k] = Slots
            /\ \A s \in Slots :
                /\ Cardinality(OverridesAt(d, s)) <= 1
                /\ Cardinality(TemplatesAt(weekday(d), s)) <= 1
                /\ <<arrays[1][s], arrays[2][s], arrays[3][s]>> = Expected(d, s)
    /\ pc \in {"loaded", "solved", "done"} =>
        /\ DOMAIN min_count = Slots
        /\ DOMAIN target_count = Slots
        /\ DOMAIN max_count = Slots
\* a solve has read its arrays with no commit in between: the 17:00 slot of the day
\* has an override on top of a template, the 17:30 slot a template only, the 18:00
\* slot neither, and the same weekday a week later has no override
C16_Witness ==
    /\ pc = "loaded"
    /\ LoadedInstance = StoreInstance
    /\ OverridesAt(GenDay, 0) # {} /\ TemplatesAt(weekday(GenDay), 0) # {}
    /\ OverridesAt(GenDay, 1) = {} /\ TemplatesAt(weekday(GenDay), 1) # {}
    /\ OverridesAt(GenDay + 7, 0) = {}
    /\ <<min_count[0], target_count[0], max_count[0]>> = <<1, 1, 2>>
    /\ <<min_count[1], target_count[1], max_count[1]>> = <<0, 1, 1>>
    /\ <<min_count[2], target_count[2], max_count[2]>> = <<2, 3, 4>>

\* C19: the instance a solve has read is the instance of the store at one point in
\* time between its first and its last read, whatever other sessions commit in
\* between; and no step of the solve changes the store.
C19_SnapshotReads ==
    pc = "loaded" => LoadedInstance \in snapshots

\* C20: the diagnosis of a failed solve is the diagnosis of the instance that solve
\* read (its roster, availability matrix and minimum headcounts).
C20_DiagnosisOfSolvedInstance ==
    (pc = "done" /\ ~success) =>
        diag = Report(IssuesUpTo(staff_list, avail_matrix, min_count, n_slots - 1))

\* the rows the store holds for date d
RowsOf(rows, d) == {row \in rows : row.date = d}
\* the positions of the items of staff i with both times set
SetItemsOf(items, i) == {k \in DOMAIN items : items[k][1] = i /\ is_set(items[k])}
\* the rows the items stand for on date d: for each staff with a set item, the row of
\* the last such item
WindowsOfItems(d, items) ==
    {[employee_id |-> i, date |-> d,
      start_time |-> items[MaxOf(SetItemsOf(items, i))][2],
      end_time |-> items[MaxOf(SetItemsOf(items, i))][3]]
        : i \in {items[k][1] : k \in {j \in DOMAIN items : SetItemsOf(items, items[j][1]) # {}}}}
\* at most one row per (staff, date)
OneWindowPerStaffDate(rows) ==
    \A r, q \in rows : (r.employee_id = q.employee_id /\ r.date = q.date) => r = q

\* C21: the store never holds two availability windows for one (staff, date); after
\* save_availabilities_for_date(d, items) the windows of date d are exactly the items
\* whose start and end are both non-blank, the last such item of a staff id that is
\* repeated, so a staff with no such item has no window on d; the windows of every
\* other date are as they were before the call.
C21_SaveReplacesDate ==
    /\ OneWindowPerStaffDate(availability)
    /\ saved.called =>
        /\ RowsOf(availability, saved.date) = WindowsOfItems(saved.date, saved.items)
        /\ \A d \in SaveDates \ {saved.date} :
                RowsOf(availability, d) = RowsOf(saved.before, d)
\* a second save of the day: staff 1 is listed twice with two different windows and
\* keeps the later one, staff 2 is not listed and loses the window they had, and the
\* next day still has its two windows
C21_Witness ==
    /\ writes = 2
    /\ saved.called /\ saved.date = GenDay
    /\ Len(saved.items) = 2
    /\ saved.items[1][1] = 1 /\ saved.items[2][1] = 1
    /\ is_set(saved.items[1]) /\ is_set(saved.items[2])
    /\ saved.items[1] # saved.items[2]
    /\ \E row \in saved.before : row.employee_id = 2 /\ row.date = GenDay
    /\ \A row \in availability : row.date = GenDay => row.employee_id = 1
    /\ Cardinality(RowsOf(availability, GenDay + 1)) = 2

\* C22: whatever save_demand_slot, save_demand_template_slot and apply_default_demand
\* have stored, every triple of the effective demand of every date has
\* 0 <= min <= target <= max.
C22_DemandTriplesOrdered ==
    \A d \in Dates :
        LET demand_dict == get_effective_demand_for_date(d)
        IN  \A l \in DOMAIN demand_dict :
                /\ 0 <= demand_dict[l][1]
                /\ demand_dict[l][1] <= demand_dict[l][2]
                /\ demand_dict[l][2] <= demand_dict[l][3]

\* the bars of staff i, as sets of slots [start_s, end_s)
BarsOf(i) == {k \in DOMAIN bars.value : bars.value[k].staff = i}
BarSlots(k) == bars.value[k].start_s .. (bars.value[k].end_s - 1)
\* the maximal runs of 1 of a row: the pairs <<a, b>> with 1 on a .. b - 1, and no 1
\* just before a or at b
MaximalRuns(row) ==
    {<<a, b>> \in Slots \X (1 .. n_slots) :
        /\ a < b
        /\ \A s \in a .. (b - 1) : row[s] = 1
        /\ (a > 0 => row[a - 1] # 1)
        /\ (b < n_slots => row[b] # 1)}

\* C23: for any 0/1 matrix _assign_matrix_to_bars returns, for each staff row, exactly
\* the maximal runs of consecutive assigned slots as half-open intervals [start, end),
\* in slot order: the intervals of a row are pairwise disjoint and not adjacent, they
\* cover exactly the slots with value 1, a staff with no assigned slot gets none, and
\* for the matrix of a successful solve each staff gets at most one interval.
C23_BarsAreMaximalRuns ==
    bars.built =>
        /\ \A k \in DOMAIN bars.value : bars.value[k].staff \in 1 .. Len(staff_list)
        /\ \A i \in 1 .. Len(staff_list) :
            /\ {<<bars.value[k].start_s, bars.value[k].end_s>> : k \in BarsOf(i)}
                    = MaximalRuns(assign_matrix[i])
            /\ Cardinality(BarsOf(i)) = Cardinality(MaximalRuns(assign_matrix[i]))
            /\ UNION {BarSlots(k) : k \in BarsOf(i)} = {s \in Slots : assign_matrix[i][s] = 1}
            /\ \A k, j \in BarsOf(i) :
                    k < j => bars.value[k].end_s < bars.value[j].start_s
            /\ (\A s \in Slots : assign_matrix[i][s] # 1) => BarsOf(i) = {}
            /\ status \in {"OPTIMAL", "FEASIBLE"} => Cardinality(BarsOf(i)) <= 1
\* a row with four runs, one of them the two last slots, gave four bars, the last
\* of which ends at slot 25, next to an empty row that gave none
C23_Witness ==
    /\ bars.built
    /\ status = "NONE"
    /\ Cardinality(BarsOf(1)) = 4
    /\ \E k \in BarsOf(1) : bars.value[k].start_s = 23 /\ bars.value[k].end_s = 25
    /\ BarsOf(2) = {}
\* the result of a successful solve gave one bar for each of its two staff
C23_WitnessSolved ==
    /\ bars.built
    /\ status = "OPTIMAL"
    /\ Cardinality(BarsOf(1)) = 1
    /\ Cardinality(BarsOf(2)) = 1

\* a key-person on duty in the slots that need staff and have a key-person available
KeyWhereStaffNeeded(A) ==
    \A s \in Slots :
        (min_count[s] >= 1 /\ key_in_slot(s) # {}) => \E i \in key_in_slot(s) : A[i][s] = 1
\* the constraint system with that key-person requirement in place of its own
FeasibleKeyWhereNeeded ==
    {A \in RowProduct(n_staff) :
        BoundsOK(A) /\ KeyWhereStaffNeeded(A) /\ NewbieOK(A) /\ DevOK(A)}

\* C24: the constraint system asks for a key-person in exactly the slots with
\* min >= 1 in which a key-person is available, and in no slot with min = 0; so a day
\* is never infeasible merely because a key-person is available in a slot whose
\* demand is (0, 0, 0).
C24_KeyOnlyWhereStaffNeeded ==
    (pc = "solved" /\ n_staff > 0) =>
        /\ Feasible = FeasibleKeyWhereNeeded
        /\ status = "INFEASIBLE" => FeasibleKeyWhereNeeded = {}

\* the totals of the staff with at least one assigned slot
ScheduledTotals(A) == {slot_total(i, A[i]) : i \in {j \in Staff : slot_total(j, A[j]) >= 1}}
\* the gap between the longest and the shortest shift of the scheduled staff
ScheduledGap(A) ==
    IF ScheduledTotals(A) = {} THEN 0
    ELSE MaxOf(ScheduledTotals(A)) - MinOf(ScheduledTotals(A))
\* the objective with that gap as its fairness term
ObjectiveScheduledGap(A) ==
    IF \E s \in Slots : vars_s(s) # {}
    THEN sum_abs_devs(A) * DevWeight + ScheduledGap(A)
    ELSE ScheduledGap(A)

\* C25: the fairness term of the objective is the largest minus the smallest slot
\* total among the staff who are scheduled; a staff with no assigned slot does not
\* enter the minimum. So the assignment the solver proves optimal has that gap as its
\* fairness term and is optimal for the objective built with it.
C25_FairnessOverScheduled ==
    (pc = "solved" /\ status = "OPTIMAL") =>
        /\ fairness(assign_matrix) = ScheduledGap(assign_matrix)
        /\ \A B \in Feasible :
                ObjectiveScheduledGap(assign_matrix) <= ObjectiveScheduledGap(B)

\* the slot that begins at a stored time: the hours 0..5 are those after midnight
SlotOfStored(l) == 2 * ((IF l.h <= 5 THEN l.h + 24 ELSE l.h) - 17) + l.m \div 30
\* the slots of the windows the store holds for staff i on date d
WindowSlots(i, d) ==
    {s \in Slots : \E row \in availability :
        /\ row.employee_id = i /\ row.date = d
        /\ SlotOfStored(row.start_time) <= s
        /\ s < SlotOfStored(row.end_time)}
MatrixOf(d) == availability_matrix(get_employees, get_avails(d))

\* C26: for every date, get_availability_matrix_and_staff has one row of 25 booleans
\* for each staff of the roster, in roster order, true on exactly the slots of the
\* half-open range [slot(start), slot(end)) of the staff's window on the date; a staff
\* with no window on the date, or with a window that ends at or before its start, has
\* an all-false row and is still in the staff list that a solve reads.
C26_MatrixMatchesWindows ==
    /\ \A d \in SaveDates :
        LET matrix == MatrixOf(d)
        IN  /\ DOMAIN matrix = 1 .. Len(employees)
            /\ \A i \in 1 .. Len(employees) :
                LET slot_ok == matrix[i]
                    window == WindowSlots(i, d)
                IN  /\ DOMAIN slot_ok = Slots
                    /\ \A s \in Slots : slot_ok[s] \in BOOLEAN /\ (slot_ok[s] <=> s \in window)
                    /\ (\A row \in availability :
                            (row.employee_id = i /\ row.date = d) =>
                                SlotOfStored(row.end_time) <= SlotOfStored(row.start_time))
                          => \A s \in Slots : ~slot_ok[s]
    /\ pc = "loaded" =>
        /\ staff_list = employees
        /\ Len(avail_matrix) = Len(staff_list)
        /\ avail_matrix = availability_matrix(staff_list, avails)
\* a solve has read the day: the first staff is available 17:00-29:00, with a row
\* true on the slots 0..23, and the second has a window that ends before it starts,
\* an all-false row, and a place in the staff list
C26_Witness ==
    /\ pc = "loaded"
    /\ Len(staff_list) = 2
    /\ \E row \in avails :
            row.employee_id = 1 /\ row.start_time = TimeOption(0) /\ row.end_time = TimeOption(24)
    /\ {s \in Slots : avail_matrix[1][s]} = 0 .. 23
    /\ \E row \in avails :
            row.employee_id = 2 /\ row.start_time = TimeOption(6) /\ row.end_time = TimeOption(3)
    /\ \A s \in Slots : ~avail_matrix[2][s]

\* the window of a row has its end slot after its start slot
EndAfterStart(row) == SlotOfStored(row.end_time) > SlotOfStored(row.start_time)
\* the row is the only one of its (staff, date) in rows
OnlyRowOfPair(row, rows) ==
    \A q \in rows : (q.employee_id = row.employee_id /\ q.date = row.date) => q = row

last_slot == n_slots - 1

\* C28: a window whose end is one of the 25 labels of TIME_OPTIONS, whatever its
\* start, the preset 17:00-29:00 included, leaves the last slot unavailable; so in
\* the instance a solve reads no staff is available in slot 24, the headcount
\* constraint of slot 24 is not built, and no assignment returned staffs slot 24.
\* (The first conjunct is about the conversion alone and is looked at in the states
\* before a generation.)
C28_LastSlotNeverStaffed ==
    /\ pc = "idle" =>
        \A a \in Slots, b \in Slots :
            ~availability_matrix(<<KeyP>>, {Window(1, a, b)})[1][last_slot]
    /\ (/\ pc \in {"loaded", "solved", "done"}
        /\ \A row \in avails : row.end_time \in TimeLabels) =>
            /\ \A i \in Staff : ~avail_matrix[i][last_slot]
            /\ vars_s(last_slot) = {}
    /\ Succeeded => OnDuty(last_slot) = {}
\* the solve of LastSlot succeeded: the key-person works 26:00-29:00 and the last
\* slot, which asks for one staff, has none
C28_Witness ==
    /\ IsInstance(LastSlot) /\ Succeeded
    /\ \E row \in avails : row.end_time = TimeOption(24)
    /\ Assigned(1) = 18 .. 23
    /\ min_count[last_slot] = 1
    /\ OnDuty(last_slot) = {}

\* the solutions of the hard constraints alone: what the constraint system admits
\* when no deviation variable excludes anything, as with a target of 0 on every slot
HardFeasible ==
    {A \in RowProduct(n_staff) : BoundsOK(A) /\ KeyOK(A) /\ NewbieOK(A)}

\* C29: the target headcounts do not decide whether the constraint system of a solve
\* has a solution: it has one exactly when the hard constraints (availability, shift
\* shape, min and max headcount, key-person, newbie cap) have one, because the
\* deviation variables exclude no assignment that satisfies them.
C29_TargetIsSoft ==
    (pc = "solved" /\ n_staff > 0) =>
        /\ (Feasible = {}) <=> (HardFeasible = {})
        /\ status = "INFEASIBLE" => HardFeasible = {}

====
